---- MODULE Spec2Model ----
(***************************************************************************)
(* ScribeDown: the line-oriented tokenizer (src/lexer.js), the token       *)
(* cursor (buffer.js) and the recursive-descent parser (parser.js), with   *)
(* the renderer of src/ast.js.  Strings are sequences of one-character     *)
(* strings, so that concatenation, trimming and character-class tests are  *)
(* computed as the code computes them.                                     *)
(***************************************************************************)
EXTENDS Integers, Sequences, FiniteSets, TLC

VARIABLES
  build,        \* which copy of the program runs: "modules" or "bundle"
  text,         \* the input string handed to new Lexer(text)
  lines,        \* Lexer.lines
  lineNo,       \* number of lines tokenizeFile has already handed to tokenizeLine
  blockQuote,   \* Lexer.blockQuote
  lists,        \* Lexer.lists, outermost frame first
  indentation,  \* Lexer.indentation (the baseline left by the previous line)
  tokens,       \* the tokens emitted so far; after tokenizeFile, Buffer.tokens
  lastLine,     \* what the last tokenizer step read and emitted
  phase,        \* "lex", "parse", "done" (parse() returned), "threw" (error escaped)
  index,        \* Buffer.index
  stack,        \* the parser's call stack, parseDocument's frame first
  ret,          \* the value the last finished parser function returned
  err,          \* the class of the error in flight or escaped
  steps,        \* parser steps taken
  ev            \* what the last parser step did

vars == <<build, text, lines, lineNo, blockQuote, lists, indentation, tokens,
          lastLine, phase, index, stack, ret, err, steps, ev>>

lexVars == <<lines, lineNo, blockQuote, lists, indentation, lastLine>>
parseVars == <<index, stack, ret, err, steps, ev>>

\* ---------------------------------------------------------------- bounds
MaxLines == 3
MaxDocLines == 2
MaxBlockLines == 3
MaxSteps == 40

\* ---------------------------------------------------------------- constants
\* the indentation beyond the baseline that makes a line a code block
CodeIndent == 4
\* the most spaces counted after a list marker
MaxPost == 5

\* ---------------------------------------------------------------- strings
NL == "\n"
TAB == "\t"
SP == " "
\* the grave accent, U+0060 (the module lexer does not take it inside a string)
BT == "grave"

Last(s) == s[Len(s)]
Front(s) == SubSeq(s, 1, Len(s) - 1)

RECURSIVE Flatten(_)
Flatten(ss) == IF ss = <<>> THEN <<>> ELSE Head(ss) \o Flatten(Tail(ss))

RECURSIVE JoinWith(_, _)
JoinWith(ss, sep) ==
  IF ss = <<>> THEN <<>>
  ELSE IF Len(ss) = 1 THEN ss[1]
  ELSE ss[1] \o sep \o JoinWith(Tail(ss), sep)

\* String.prototype.split('\n')
RECURSIVE SplitFrom(_, _, _)
SplitFrom(t, i, cur) ==
  IF i > Len(t) THEN <<cur>>
  ELSE IF t[i] = NL THEN <<cur>> \o SplitFrom(t, i + 1, <<>>)
  ELSE SplitFrom(t, i + 1, Append(cur, t[i]))

split(t) == SplitFrom(t, 1, <<>>)

IsWhite(c) == c \in {SP, TAB, NL}

RECURSIVE TrimLeft(_)
TrimLeft(s) == IF s # <<>> /\ IsWhite(Head(s)) THEN TrimLeft(Tail(s)) ELSE s

RECURSIVE TrimRight(_)
TrimRight(s) == IF s # <<>> /\ IsWhite(Last(s)) THEN TrimRight(Front(s)) ELSE s

\* String.prototype.trim()
trim(s) == TrimRight(TrimLeft(s))

repeat(c, n) == [i \in 1..n |-> c]

\* ---------------------------------------------------------------- tokens
Token(tok, val, data) == [tok |-> tok, val |-> val, data |-> data]

Frame(anchor, indent) == [anchor |-> anchor, indent |-> indent]

\* chars[pos] with a 0-based pos; past the end JavaScript yields undefined
At(chars, pos) == IF pos >= 0 /\ pos < Len(chars) THEN chars[pos + 1] ELSE "undefined"

\* chars.slice(pos) joined: the remainder of the line
Rest(chars, pos) == SubSeq(chars, pos + 1, Len(chars))

\* ---------------------------------------------------------------- Lexer
\* new Lexer(text): this.lines
LexerLines(t) == LET s == split(t) IN [k \in 1..Len(s) |-> Append(s[k], NL)]

\* resetContext, first loop: END_BLOCK_QUOTE for levels i down to count + 1
RECURSIVE EndBlockQuotes(_, _)
EndBlockQuotes(i, count) ==
  IF i > count
  THEN <<Token("END_BLOCK_QUOTE", <<>>, <<i>>)>> \o EndBlockQuotes(i - 1, count)
  ELSE <<>>

\* resetContext, second loop: pop every list frame
RECURSIVE PopAllLists(_)
PopAllLists(ls) ==
  IF ls = <<>> THEN <<>>
  ELSE <<Token("END_LIST_ITEM", <<>>, <<Last(ls).anchor>>),
         Token("END_LIST", <<>>, <<Last(ls).anchor>>)>> \o PopAllLists(Front(ls))

\* resetContext without its second loop: open lists are dropped, not closed
resetContext_NoListClose(bq, ls) ==
  [tokens |-> EndBlockQuotes(bq, 0), blockQuote |-> 0, lists |-> <<>>, indentation |-> 0]

\* resetContext closing the lists before the block quotes
resetContext_ListsFirst(bq, ls) ==
  [tokens |-> PopAllLists(ls) \o EndBlockQuotes(bq, 0),
   blockQuote |-> 0, lists |-> <<>>, indentation |-> 0]

resetContext(bq, ls) ==
  [tokens |-> EndBlockQuotes(bq, 0) \o PopAllLists(ls),
   blockQuote |-> 0, lists |-> <<>>, indentation |-> 0]

\* the indentation loop without its cap at baseline + 4
RECURSIVE CountIndent_NoCap(_, _, _)
CountIndent_NoCap(chars, n, limit) ==
  IF At(chars, n) = SP THEN CountIndent_NoCap(chars, n + 1, limit) ELSE n

\* tokenizeBlock, the loop that counts leading spaces up to baseline + 4
RECURSIVE CountIndent(_, _, _)
CountIndent(chars, n, limit) ==
  IF At(chars, n) = SP /\ n < limit THEN CountIndent(chars, n + 1, limit) ELSE n

\* the dedent loop with <= for <
RECURSIVE DedentClose_OrEqual(_, _)
DedentClose_OrEqual(ls, ind) ==
  IF ls # <<>> /\ ind <= Last(ls).anchor
  THEN LET r == DedentClose_OrEqual(Front(ls), ind)
       IN [lists |-> r.lists,
           tokens |-> <<Token("END_LIST_ITEM", <<>>, <<Last(ls).anchor>>),
                        Token("END_LIST", <<>>, <<Last(ls).anchor>>)>> \o r.tokens]
  ELSE [lists |-> ls, tokens |-> <<>>]

\* tokenizeBlock, the dedent loop: pop frames whose anchor exceeds the indentation
RECURSIVE DedentClose(_, _)
DedentClose(ls, ind) ==
  IF ls # <<>> /\ ind < Last(ls).anchor
  THEN LET r == DedentClose(Front(ls), ind)
       IN [lists |-> r.lists,
           tokens |-> <<Token("END_LIST_ITEM", <<>>, <<Last(ls).anchor>>),
                        Token("END_LIST", <<>>, <<Last(ls).anchor>>)>> \o r.tokens]
  ELSE [lists |-> ls, tokens |-> <<>>]

\* tokenizeBlock, the loop counting the spaces after a list marker (at most 5)
RECURSIVE CountPost(_, _, _)
CountPost(chars, pos, n) ==
  IF At(chars, pos) = SP /\ n < MaxPost THEN CountPost(chars, pos + 1, n + 1) ELSE n

\* tokenizeBlock, the loop consuming '>' markers, each with one optional blank
RECURSIVE QuoteMarkers(_, _, _, _)
QuoteMarkers(chars, pos, count, val) ==
  IF At(chars, pos) = ">"
  THEN LET blank == pos + 1 < Len(chars) /\ At(chars, pos + 1) \in {SP, TAB}
       IN QuoteMarkers(chars,
                       IF blank THEN pos + 2 ELSE pos + 1,
                       count + 1,
                       val \o <<">">> \o (IF blank THEN <<At(chars, pos + 1)>> ELSE <<>>))
  ELSE [pos |-> pos, count |-> count, val |-> val]

\* tokenizeBlock, the loop opening block quotes blockQuote + 1 .. count
RECURSIVE BeginBlockQuotes(_, _, _)
BeginBlockQuotes(i, count, val) ==
  IF i <= count
  THEN <<Token("BLOCK_QUOTE", IF i = count THEN val ELSE <<>>, <<i>>)>>
         \o BeginBlockQuotes(i + 1, count, val)
  ELSE <<>>

\* the lazy rule with its test on the line inverted
LazyCount_Inverted(count, bq, val, line) ==
  IF count < bq /\ trim(val) = trim(line) THEN bq ELSE count

\* lazy block quotes switched off: the markers on the line alone set the depth
LazyCount_Off(count, bq, val, line) == count

\* the lazy block quote rule of tokenizeBlock
LazyCount(count, bq, val, line) ==
  IF count < bq /\ trim(val) # trim(line) THEN bq ELSE count

\* the sibling test never taken: every list item opens a list
IsSibling_Never(ind, ls) == FALSE

\* the sibling test with <= for <
IsSibling_OffByOne(ind, ls) == ls # <<>> /\ ind <= Last(ls).indent

\* the sibling test of tokenizeBlock: indentation < this.lists.at(-1)?.indent
IsSibling(ind, ls) == ls # <<>> /\ ind < Last(ls).indent

\* the item indentation without the wrap at five spaces
ListItemIndentation_NoWrap(post) == post

\* ((postIndentation-1) % 4) + 1
ListItemIndentation(post) == ((post - 1) % 4) + 1

\* tokenizeBlock on this.chars with the lexer state (bq, ls, base); the result
\* holds the emitted tokens, the new position and the new lexer state
tokenizeBlock(chars, bq, ls, base) ==
  LET ind == CountIndent(chars, 0, base + CodeIndent)
      dd == DedentClose(ls, ind)
      out(kind, toks, pos, bq2, ls2, base2) ==
        [kind |-> kind, ind |-> ind, dedent |-> dd.tokens, block |-> toks,
         tokens |-> dd.tokens \o toks, pos |-> pos,
         blockQuote |-> bq2, lists |-> ls2, indentation |-> base2]
  IN IF ind = base + CodeIndent
     THEN out("code", <<Token("CODE_BLOCK", Rest(chars, ind), <<ind>>)>>,
              Len(chars), bq, dd.lists, base)
     ELSE IF At(chars, ind) \in {"-", "+", "*"}
     THEN LET listType == At(chars, ind)
          IN IF At(chars, ind + 1) # SP
             THEN out("marker", <<Token("TEXT", <<listType>>, <<>>)>>,
                      ind + 1, bq, dd.lists, base)
             ELSE LET post == CountPost(chars, ind + 1, 0)
                      itemInd == ListItemIndentation(post)
                      listInd == ind + 1 + itemInd
                      sib == IsSibling(ind, dd.lists)
                      open == IF sib
                              THEN <<Token("END_LIST_ITEM", <<>>,
                                           <<ind, Last(dd.lists).anchor, Last(dd.lists).indent>>)>>
                              ELSE <<Token("LIST", <<>>, <<ind, listInd>>)>>
                      item == <<Token("LIST_ITEM", <<listType>> \o repeat(SP, itemInd),
                                      <<ind, listInd>>)>>
                      code == IF post = MaxPost
                              THEN <<Token("CODE_BLOCK", Rest(chars, ind + 1 + post),
                                           <<listInd + CodeIndent>>)>>
                              ELSE <<>>
                  IN out("list", open \o item \o code,
                         IF post = MaxPost THEN Len(chars) ELSE ind + 1 + post,
                         bq,
                         IF sib THEN dd.lists ELSE Append(dd.lists, Frame(ind, listInd)),
                         listInd)
     ELSE IF At(chars, ind) = ">"
     THEN LET q == QuoteMarkers(chars, ind, 0, <<>>)
              count == LazyCount(q.count, bq, q.val, chars)
          IN out("quote",
                 EndBlockQuotes(bq, count) \o BeginBlockQuotes(bq + 1, count, q.val),
                 q.pos, count, dd.lists, base)
     ELSE out("none", <<>>, ind, bq, dd.lists, base)

\* the TEXT loop of tokenizeLine leaving after one character
TextTokens_OneChar(chars, pos) ==
  IF pos < Len(chars) THEN <<Token("TEXT", <<At(chars, pos)>>, <<>>)>> ELSE <<>>

\* tokenizeLine, the loop emitting one TEXT token per remaining character
RECURSIVE TextTokens(_, _)
TextTokens(chars, pos) ==
  IF pos < Len(chars)
  THEN <<Token("TEXT", <<At(chars, pos)>>, <<>>)>> \o TextTokens(chars, pos + 1)
  ELSE <<>>

\* tokenizeLine on this.line with the lexer state (bq, ls, base)
tokenizeLine(line, bq, ls, base) ==
  IF trim(line) = <<>>
  THEN LET r == resetContext(bq, ls)
       IN [kind |-> "blank", ind |-> 0, dedent |-> <<>>, block |-> r.tokens,
           tokens |-> Append(r.tokens, Token("BLANK_LINE", <<>>, <<>>)),
           pos |-> 0, blockQuote |-> r.blockQuote, lists |-> r.lists,
           indentation |-> r.indentation]
  ELSE LET b == tokenizeBlock(line, bq, ls, base)
       IN [b EXCEPT !.tokens = b.tokens \o TextTokens(line, b.pos)]

\* ---------------------------------------------------------------- inputs
LexPool ==
  { <<>>,
    <<SP>>,
    <<"a">>,
    <<"-", SP, "a">>,
    <<SP, SP, "-", SP, "b">>,
    <<"*", "x">>,
    <<"+", SP, SP, SP, SP, SP, "c">>,
    <<"-", SP, SP, SP, "a">>,
    <<">", SP, "a">>,
    <<">">>,
    <<SP, SP, SP, SP, ">">>,
    <<SP, SP, SP, SP, SP, SP, "c">>,
    <<SP, SP, SP, SP, "-", SP, "a">>,
    <<">", TAB, ">">> }

LineSeqs(pool, n) == UNION { [1..k -> pool] : k \in 1..n }

Texts(pool, n) == { JoinWith(ls, <<NL>>) : ls \in LineSeqs(pool, n) }

NoLine == [kind |-> "init", line |-> <<>>, ind |-> 0, dedent |-> <<>>, block |-> <<>>,
           tokens |-> <<>>, blockQuote |-> 0, lists |-> <<>>, indentation |-> 0]
NoEv == [kind |-> "init", fn |-> "", pc |-> "", from |-> 0, at |-> 0]

InitWith(t, b) ==
  /\ build = b
  /\ text = t
  /\ lines = LexerLines(t)
  /\ lineNo = 0
  /\ blockQuote = 0
  /\ lists = <<>>
  /\ indentation = 0
  /\ tokens = <<>>
  /\ lastLine = NoLine
  /\ phase = "lex"
  /\ index = 0
  /\ stack = <<>>
  /\ ret = <<>>
  /\ err = "none"
  /\ steps = 0
  /\ ev = NoEv

\* tokenizeFile, one iteration of its loop over this.lines
TokenizeLine ==
  /\ phase = "lex"
  /\ lineNo < Len(lines)
  /\ LET line == lines[lineNo + 1]
         r == tokenizeLine(line, blockQuote, lists, indentation)
     IN /\ tokens' = tokens \o r.tokens
        /\ blockQuote' = r.blockQuote
        /\ lists' = r.lists
        /\ indentation' = r.indentation
        /\ lastLine' = [kind |-> r.kind, line |-> line, ind |-> r.ind,
                        dedent |-> r.dedent, block |-> r.block, tokens |-> r.tokens,
                        blockQuote |-> blockQuote, lists |-> lists,
                        indentation |-> indentation]
  /\ lineNo' = lineNo + 1
  /\ UNCHANGED <<build, text, lines, phase, index, stack, ret, err, steps, ev>>

\* tokenizeFile after its loop: the final resetContext, then tokenize() returns
TokenizeEnd ==
  /\ phase = "lex"
  /\ lineNo = Len(lines)
  /\ LET r == resetContext(blockQuote, lists)
     IN /\ tokens' = tokens \o r.tokens
        /\ blockQuote' = r.blockQuote
        /\ lists' = r.lists
        /\ indentation' = r.indentation
        /\ lastLine' = [kind |-> "end", line |-> <<>>, ind |-> 0, dedent |-> <<>>,
                        block |-> r.tokens, tokens |-> r.tokens,
                        blockQuote |-> blockQuote, lists |-> lists,
                        indentation |-> indentation]
  /\ phase' = "lexed"
  /\ UNCHANGED <<build, text, lines, lineNo, index, stack, ret, err, steps, ev>>

\* ---------------------------------------------------------------- ast.js
Node(type, tag, level, txt, kids) ==
  [type |-> type, tag |-> tag, level |-> level, text |-> txt, kids |-> kids]

DocumentNode(blocks) == Node("Document", <<>>, 0, <<>>, blocks)
HeaderNode(level, content) == Node("Header", <<>>, level, <<>>, content)
RowNode(cells) == Node("Row", <<>>, 0, <<>>, cells)
TableNode(header, rows) == Node("Table", <<>>, 0, <<>>, <<header>> \o rows)
BlockQuoteNode(blocks) == Node("BlockQuote", <<>>, 0, <<>>, blocks)
CodeBlockNode(txt) == Node("CodeBlock", <<>>, 0, txt, <<>>)
ListNode(items) == Node("List", <<>>, 0, <<>>, items)
ListItemNode(blocks) == Node("ListItem", <<>>, 0, <<>>, blocks)
ParagraphNode(ls) == Node("Paragraph", <<>>, 0, <<>>, ls)
StyleNode(type, content) == Node("Style", type, 0, <<>>, content)
TextNode(txt) == Node("Text", <<>>, 0, txt, <<>>)
ErrorNode(txt) == Node("Error", <<>>, 0, txt, <<>>)

\* ---------------------------------------------------------------- html()
Digit(d) == <<"0", "1", "2", "3", "4", "5", "6", "7", "8", "9">>[d + 1]

\* the decimal digits of a template literal's ${number}
RECURSIVE Decimal(_)
Decimal(n) == IF n < 10 THEN <<Digit(n)>> ELSE Decimal(n \div 10) \o <<Digit(n % 10)>>

\* <name> and </name>
OpenTag(name) == <<"<">> \o name \o <<">">>
CloseTag(name) == <<"<", "/">> \o name \o <<">">>
Wrapped(name, inner) == OpenTag(name) \o inner \o CloseTag(name)

\* Node.html() of ast.js
RECURSIVE html(_)
html(n) ==
  LET each == [k \in 1..Len(n.kids) |-> html(n.kids[k])]
      cells(row, name) == Flatten([k \in 1..Len(row.kids) |-> Wrapped(name, html(row.kids[k]))])
  IN CASE n.type = "Document" -> JoinWith(each, <<NL>>)
       [] n.type = "Header" -> Wrapped(<<"h">> \o Decimal(n.level), Flatten(each))
       [] n.type = "Table" ->
            <<"<", "t", "a", "b", "l", "e", ">", NL, "<", "t", "h", "e", "a", "d", ">">> \o cells(n.kids[1], <<"t", "h">>) \o <<"<", "/", "t", "h", "e", "a", "d", ">", NL, "<", "t", "b", "o", "d", "y", ">", NL>>
            \o Flatten([k \in 1..(Len(n.kids) - 1) |->
                         <<TAB, "<", "t", "r", ">">> \o cells(n.kids[k + 1], <<"t", "d">>) \o <<"<", "/", "t", "r", ">", NL>>])
            \o <<"<", "/", "t", "b", "o", "d", "y", ">", NL, "<", "/", "t", "a", "b", "l", "e", ">">>
       [] n.type = "BlockQuote" -> Wrapped(<<"b", "l", "o", "c", "k", "q", "u", "o", "t", "e">>, Flatten(each))
       [] n.type = "CodeBlock" -> <<"<", "p", "r", "e", ">", "<", "c", "o", "d", "e", ">">> \o n.text \o <<"<", "/", "c", "o", "d", "e", ">", "<", "/", "p", "r", "e", ">">>
       [] n.type = "List" -> <<"<", "u", "l", ">", NL>> \o JoinWith(each, <<NL>>) \o <<NL, "<", "/", "u", "l", ">">>
       [] n.type = "ListItem" -> Wrapped(<<"l", "i">>, Flatten(each))
       [] n.type = "Paragraph" -> Wrapped(<<"p">>, JoinWith(each, <<"<", "b", "r", ">">>))
       [] n.type = "Style" -> Wrapped(n.tag, Flatten(each))
       [] n.type = "Text" -> n.text
       [] n.type = "Error" -> <<"<", "s", "p", "a", "n", SP, "s", "t", "y", "l", "e", "=", "\"", "c", "o", "l", "o", "r", ":", SP, "r", "e", "d", ";", "\"", ">">> \o n.text \o <<"<", "/", "s", "p", "a", "n", ">">>
       [] n.type = "Row" -> Flatten(each)

\* ---------------------------------------------------------------- Buffer
Undefined == [tok |-> "undefined", val |-> <<"undefined">>, data |-> <<>>]

\* hasNext()
hasNext(i) == i < Len(tokens)

\* peek(): the token at the cursor, undefined past the end
peek(i) == IF i >= 0 /\ i < Len(tokens) THEN tokens[i + 1] ELSE Undefined

\* matchers: a literal value, a character class, or a negated character class
Lit(v) == [kind |-> "lit", chars |-> {}, val |-> v]
Class(cs) == [kind |-> "class", chars |-> cs, val |-> <<>>]
NotClass(cs) == [kind |-> "nclass", chars |-> cs, val |-> <<>>]

\* RegExp.prototype.test(val) for a one-character class (undefined is tested as
\* the string "undefined"), and val === expected for a literal
Matches(m, t) ==
  CASE m.kind = "lit" -> t # Undefined /\ t.val = m.val
    [] m.kind = "class" -> \E k \in 1..Len(t.val) : t.val[k] \in m.chars
    [] m.kind = "nclass" -> \E k \in 1..Len(t.val) : t.val[k] \notin m.chars

\* expect whose next() steps the cursor back
expect_Rewind(m, i) == [ok |-> Matches(m, peek(i)), tok |-> peek(i), index |-> i - 1]

\* expect(expected): found = next(); ok is FALSE where the code throws
expect(m, i) == [ok |-> Matches(m, peek(i)), tok |-> peek(i), index |-> i + 1]

\* expectAll(expected): err is "TypeError" where expect() returns undefined and
\* the loop reads its .val
RECURSIVE expectAll(_, _)
expectAll(m, i) ==
  IF Matches(m, peek(i))
  THEN IF peek(i) = Undefined
       THEN [val |-> <<>>, index |-> i + 1, err |-> "TypeError"]
       ELSE LET r == expectAll(m, i + 1)
            IN [val |-> peek(i).val \o r.val, index |-> r.index, err |-> r.err]
  ELSE [val |-> <<>>, index |-> i, err |-> "none"]

\* ---------------------------------------------------------------- Parser
styleChars == Class({"*", "_", "~", "^", BT, "+", "-"})
layoutChars == Class({"|"})

styleTypes ==
  { <<<<"*">>, <<"e", "m">>>>,
    <<<<"*", "*">>, <<"s", "t", "r", "o", "n", "g">>>>,
    <<<<"_">>, <<"e", "m">>>>,
    <<<<"_", "_">>, <<"u">>>>,
    <<<<"~", "~">>, <<"s">>>>,
    <<<<"~">>, <<"s", "u", "b">>>>,
    <<<<"^">>, <<"s", "u", "p">>>>,
    <<<<"-", "-">>, <<"s", "m", "a", "l", "l">>>>,
    <<<<"+", "+">>, <<"b", "i", "g">>>>,
    <<<<BT>>, <<"c", "o", "d", "e">>>> }

\* start in styleTypes
InStyleTypes(s) == \E e \in styleTypes : e[1] = s
\* styleTypes[start]
StyleType(s) == (CHOOSE e \in styleTypes : e[1] = s)[2]
Span == <<"s", "p", "a", "n">>

\* parseText: the longest run of TEXT tokens that are neither style nor layout
RECURSIVE parseTextFrom(_, _)
parseTextFrom(i, txt) ==
  IF hasNext(i) /\ peek(i).tok = "TEXT"
     /\ ~Matches(styleChars, peek(i)) /\ ~Matches(layoutChars, peek(i))
  THEN parseTextFrom(i + 1, txt \o peek(i).val)
  ELSE [node |-> TextNode(txt), index |-> i]

parseText(i) == parseTextFrom(i, <<>>)

\* parseCodeBlock: the run of consecutive CODE_BLOCK tokens
RECURSIVE parseCodeBlockFrom(_, _)
parseCodeBlockFrom(i, txt) ==
  IF peek(i).tok = "CODE_BLOCK"
  THEN parseCodeBlockFrom(i + 1, txt \o peek(i).val)
  ELSE [node |-> CodeBlockNode(txt), index |-> i]

parseCodeBlock(i) == parseCodeBlockFrom(i, <<>>)

\* a frame of the call stack: the function, where it stands, and its locals
\* (acc: blocks/content/items/row, str: parseStyle's start, n: headerLevel,
\* from: the cursor at entry, mark: the cursor when the current iteration began)
Call(fn, i) ==
  [fn |-> fn, pc |-> "start", acc |-> <<>>, str |-> <<>>, n |-> 0, from |-> i, mark |-> i]

Top == Last(stack)
Machine == [stack |-> stack, index |-> index, ret |-> ret, phase |-> phase,
            err |-> err, kind |-> "step"]

\* the frame f replaces the top frame, the cursor moves to i
Goto(M, f, i) == [M EXCEPT !.stack = Front(M.stack) \o <<f>>, !.index = i]

\* the frame f once it has started an iteration at cursor m and waits for a result
Wait(f, m) == [f EXCEPT !.pc = "ret", !.mark = m]

\* the top frame, now f, calls fn at cursor i
Push(M, f, i, fn) ==
  [M EXCEPT !.stack = Front(M.stack) \o <<f, Call(fn, i)>>, !.index = i, !.kind = "call"]

\* a callee without calls of its own ran to its end within the step: the top
\* frame, now f, holds its result in ret, the cursor is at j
Done(M, f, node, j) ==
  [M EXCEPT !.stack = Front(M.stack) \o <<f>>, !.index = j, !.ret = node, !.kind = "leaf"]

\* return node with the cursor at i: the top frame is popped
Return(M, node, i) ==
  [M EXCEPT !.stack = Front(M.stack), !.index = i, !.ret = node, !.kind = "return"]

\* an error of class k is thrown with the cursor at i: parseDocument's catch
\* takes a ParseError raised under parseBlock, anything else leaves parse()
Throw(M, k, i) ==
  IF k = "ParseError" /\ Len(M.stack) > 1
  THEN [M EXCEPT !.stack = <<[(M.stack[1]) EXCEPT !.pc = "catch"]>>, !.index = i,
                 !.err = k, !.kind = "throw"]
  ELSE [M EXCEPT !.stack = <<>>, !.index = i, !.err = k, !.phase = "threw",
                 !.kind = "throw"]

\* what `throw new ParseError(...)` in Buffer.expect raises: the bundle defines
\* ParseError in the same scope; buffer.js neither defines nor imports it
ExpectFailure == IF build = "bundle" THEN "ParseError" ELSE "ReferenceError"

\* parseInline called by the top frame f at cursor i, in an iteration begun at m
parseInline(M, f, m, i) ==
  IF peek(i) = Undefined
  THEN Throw(M, "TypeError", i)
  ELSE IF Matches(styleChars, peek(i))
  THEN Push(M, Wait(f, m), i, "parseStyle")
  ELSE Done(M, Wait(f, m), parseText(i).node, parseText(i).index)

\* parseBlock called by the top frame f at cursor i
parseBlock(M, f, i) ==
  LET j == IF peek(i).tok = "BLANK_LINE" \/ (peek(i) # Undefined /\ peek(i).val = <<NL>>)
           THEN i + 1 ELSE i
      p == peek(j)
      g == Wait(f, i)
  IN IF p # Undefined /\ p.val = <<"#">> THEN Push(M, g, j, "parseHeader")
     ELSE IF p # Undefined /\ p.val = <<"|">> THEN Push(M, g, j, "parseTable")
     ELSE IF p.tok = "BLOCK_QUOTE" THEN Push(M, g, j, "parseBlockQuote")
     ELSE IF p.tok = "CODE_BLOCK"
     THEN Done(M, g, parseCodeBlock(j).node, parseCodeBlock(j).index)
     ELSE IF p.tok = "LIST" THEN Push(M, g, j, "parseList")
     ELSE Push(M, g, j, "parseParagraph")

\* the locals of the frame f once the pending result is pushed onto its array
Absorbed(f) ==
  IF f.pc = "ret" THEN [f EXCEPT !.acc = Append(f.acc, ret), !.pc = "loop"] ELSE f

\* expectOrEOF('\n') at cursor i, then return node
ExpectNewlineAndReturn(M, node, i) ==
  IF hasNext(i)
  THEN IF expect(Lit(<<NL>>), i).ok
       THEN Return(M, node, i + 1)
       ELSE Throw(M, ExpectFailure, i + 1)
  ELSE Return(M, node, i)

\* the step of the top frame's function leads to the machine state M
Apply(M) ==
  /\ stack' = M.stack
  /\ index' = M.index
  /\ ret' = M.ret
  /\ phase' = M.phase
  /\ err' = M.err
  /\ ev' = [kind |-> M.kind, fn |-> Top.fn, pc |-> Top.pc, from |-> Top.from, at |-> index]
  /\ steps' = steps + 1
  /\ UNCHANGED <<build, text, tokens, lexVars>>

Running(fn) == phase = "parse" /\ steps < MaxSteps /\ stack # <<>> /\ Top.fn = fn

\* new Parser(tokens).parse(): parseDocument is entered
ParserParse ==
  /\ phase = "lexed"
  /\ phase' = "parse"
  /\ index' = 0
  /\ stack' = <<Call("parseDocument", 0)>>
  /\ ev' = [kind |-> "call", fn |-> "parse", pc |-> "start", from |-> 0, at |-> 0]
  /\ UNCHANGED <<build, text, tokens, lexVars, ret, err, steps>>

\* parseDocument: one turn of its loop (push the block that came back, test
\* hasNext, call parseBlock) or the final return
ParseDocument ==
  /\ Running("parseDocument")
  /\ Top.pc # "catch"
  /\ LET f == Absorbed(Top)
     IN Apply(IF hasNext(index)
              THEN parseBlock(Machine, f, index)
              ELSE [Machine EXCEPT !.stack = <<>>, !.ret = DocumentNode(f.acc),
                                   !.phase = "done", !.kind = "return"])

\* parseDocument's catch block for a ParseError
Recover ==
  /\ Running("parseDocument")
  /\ Top.pc = "catch"
  /\ LET a == expectAll(NotClass({NL}), index)
         b == expectAll(Lit(<<NL>>), a.index)
     IN Apply(IF a.err # "none"
              THEN Throw(Machine, a.err, a.index)
              ELSE Goto([Machine EXCEPT !.kind = "recover", !.err = "none",
                                        !.ret = ErrorNode(a.val \o b.val)],
                        [Top EXCEPT !.acc = Append(@, ErrorNode(a.val \o b.val)),
                                    !.pc = "loop"],
                        b.index))

ParseHeader ==
  /\ Running("parseHeader")
  /\ LET ea == expectAll(Lit(<<"#">>), index)
         f == IF Top.pc = "start"
              THEN [Top EXCEPT !.n = Len(ea.val), !.pc = "loop"] ELSE Absorbed(Top)
         i == IF Top.pc = "start" THEN ea.index ELSE index
     IN Apply(IF hasNext(i) /\ peek(i).val # <<NL>>
              THEN parseInline(Machine, f, i, i)
              ELSE ExpectNewlineAndReturn(Machine, HeaderNode(f.n, f.acc), i))

\* parseTable keeping the separator row among the rows
ParseTable_KeepSep ==
  /\ Running("parseTable")
  /\ LET f == IF Top.pc = "header" THEN [Top EXCEPT !.acc = <<ret>>]
              ELSE IF Top.pc \in {"sep", "row"} THEN [Top EXCEPT !.acc = Append(@, ret)]
              ELSE Top
     IN Apply(IF Top.pc = "start"
              THEN Push(Machine, [f EXCEPT !.pc = "header"], index, "parseTableRow")
              ELSE IF Top.pc = "header"
              THEN Push(Machine, [f EXCEPT !.pc = "sep"], index, "parseTableSep")
              ELSE IF peek(index) # Undefined /\ peek(index).val = <<"|">>
              THEN Push(Machine, [f EXCEPT !.pc = "row", !.mark = index], index,
                        "parseTableRow")
              ELSE Return(Machine, TableNode(RowNode(f.acc[1].kids), Tail(f.acc)), index))

ParseTable ==
  /\ Running("parseTable")
  /\ LET f == IF Top.pc = "header" THEN [Top EXCEPT !.acc = <<ret>>]
              ELSE IF Top.pc = "row" THEN [Top EXCEPT !.acc = Append(@, ret)]
              ELSE Top
     IN Apply(IF Top.pc = "start"
              THEN Push(Machine, [f EXCEPT !.pc = "header"], index, "parseTableRow")
              ELSE IF Top.pc = "header"
              THEN Push(Machine, [f EXCEPT !.pc = "sep"], index, "parseTableSep")
              ELSE IF peek(index) # Undefined /\ peek(index).val = <<"|">>
              THEN Push(Machine, [f EXCEPT !.pc = "row", !.mark = index], index,
                        "parseTableRow")
              ELSE Return(Machine, TableNode(RowNode(f.acc[1].kids), Tail(f.acc)), index))

ParseTableRow ==
  /\ Running("parseTableRow")
  /\ LET e == expect(Lit(<<"|">>), index)
         f == Absorbed(Top)
         i == e.index
     IN Apply(IF ~e.ok
              THEN Throw(Machine, ExpectFailure, i)
              ELSE IF hasNext(i) /\ peek(i).val # <<NL>>
              THEN parseInline(Machine, f, i, i)
              ELSE ExpectNewlineAndReturn(Machine, RowNode(f.acc), i))

ParseTableSep ==
  /\ Running("parseTableSep")
  /\ LET e == expect(Lit(<<"|">>), index)
         i == IF Top.pc = "start" THEN e.index ELSE index
         a == expectAll(Class({SP, TAB}), i)
         b == expectAll(Lit(<<"-">>), a.index)
         c == expectAll(Class({SP, TAB}), b.index)
         e2 == expect(Lit(<<"|">>), c.index)
     IN Apply(IF Top.pc = "start" /\ ~e.ok
              THEN Throw(Machine, ExpectFailure, i)
              ELSE IF hasNext(i) /\ peek(i).val # <<NL>>
              THEN IF e2.ok
                   THEN Goto([Machine EXCEPT !.kind = "leaf"],
                             [Top EXCEPT !.pc = "iter", !.mark = i,
                                         !.acc = Append(@, TextNode(a.val \o b.val \o c.val))],
                             e2.index)
                   ELSE Throw(Machine, ExpectFailure, e2.index)
              ELSE ExpectNewlineAndReturn(Machine, RowNode(Top.acc), i))

ParseBlockQuote ==
  /\ Running("parseBlockQuote")
  /\ LET f == Absorbed(Top)
         i == IF Top.pc = "start" THEN index + 1 ELSE index
     IN Apply(IF Top.pc = "start" \/ peek(i).tok # "END_BLOCK_QUOTE"
              THEN parseBlock(Machine, f, i)
              ELSE Return(Machine, BlockQuoteNode(f.acc), i + 1))

ParseList ==
  /\ Running("parseList")
  /\ LET f == Absorbed(Top)
         i == IF Top.pc = "start" THEN index + 1 ELSE index
     IN Apply(IF peek(i).tok # "END_LIST"
              THEN Push(Machine, Wait(f, i), i, "parseListItem")
              ELSE Return(Machine, ListNode(f.acc), i + 1))

ParseListItem ==
  /\ Running("parseListItem")
  /\ LET f == Absorbed(Top)
         i == IF Top.pc = "start" THEN index + 1 ELSE index
     IN Apply(IF peek(i).tok # "END_LIST_ITEM"
              THEN parseBlock(Machine, f, i)
              ELSE Return(Machine, ListItemNode(f.acc), i + 1))

ParseParagraph ==
  /\ Running("parseParagraph")
  /\ LET f == Absorbed(Top)
     IN Apply(IF hasNext(index) /\ peek(index).val # <<NL>> /\ peek(index).tok = "TEXT"
              THEN parseInline(Machine, f, index, index)
              ELSE Return(Machine, ParagraphNode(f.acc), index))

\* parseStyle: start + this.tokens.peek()?.val in styleTypes
\* parseStyle without the two-character lookahead
TwoCharMarker_Never(start, t) == FALSE

\* start + this.tokens.peek()?.val in styleTypes
TwoCharMarker(start, t) == InStyleTypes(start \o t.val)

\* parseStyle's loop condition: the bundle lacks the test for a TEXT token
StyleLoopTest(i) == hasNext(i) /\ (build = "modules" => peek(i).tok = "TEXT")

\* parseStyle whose fall-through leaves out the unshift of the opener
StyleLoop_DropOpener(M, f, i) ==
  IF StyleLoopTest(i)
  THEN IF peek(i).val = <<f.str[1]>>
       THEN IF Len(f.str) = 1 \/ peek(i + 1).val = <<f.str[2]>>
            THEN Return(M, StyleNode(StyleType(f.str), f.acc),
                        IF Len(f.str) = 2 THEN i + 2 ELSE i + 1)
            ELSE parseInline(M, [f EXCEPT !.acc = Append(@, TextNode(<<f.str[1]>>))],
                             i, i + 1)
       ELSE parseInline(M, f, i, i)
  ELSE Return(M, StyleNode(Span, f.acc), i)

\* parseStyle from its loop condition on, with the locals f and the cursor at i
StyleLoop(M, f, i) ==
  IF StyleLoopTest(i)
  THEN IF peek(i).val = <<f.str[1]>>
       THEN IF Len(f.str) = 1 \/ peek(i + 1).val = <<f.str[2]>>
            THEN Return(M, StyleNode(StyleType(f.str), f.acc),
                        IF Len(f.str) = 2 THEN i + 2 ELSE i + 1)
            ELSE parseInline(M, [f EXCEPT !.acc = Append(@, TextNode(<<f.str[1]>>))],
                             i, i + 1)
       ELSE parseInline(M, f, i, i)
  ELSE Return(M, StyleNode(Span, <<TextNode(f.str)>> \o f.acc), i)

ParseStyle ==
  /\ Running("parseStyle")
  /\ LET e1 == expect(styleChars, index)
         two == TwoCharMarker(e1.tok.val, peek(e1.index))
         e2 == expect(Lit(e1.tok.val), e1.index)
         start == IF two THEN e1.tok.val \o e2.tok.val ELSE e1.tok.val
         i == IF Top.pc # "start" THEN index ELSE IF two THEN e2.index ELSE e1.index
         f == IF Top.pc = "start"
              THEN [Top EXCEPT !.str = start, !.pc = "loop"] ELSE Absorbed(Top)
     IN Apply(IF Top.pc = "start" /\ ~e1.ok
              THEN Throw(Machine, ExpectFailure, e1.index)
              ELSE IF Top.pc = "start" /\ two /\ ~e2.ok
              THEN Throw(Machine, ExpectFailure, e2.index)
              ELSE IF Top.pc = "start" /\ ~InStyleTypes(start)
              THEN Return(Machine, TextNode(start), i)
              ELSE StyleLoop(Machine, f, i))

DocPool ==
  { <<>>,
    <<"a">>,
    <<"#", SP, "a">>,
    <<"#", "*", "a", "*">>,
    <<"|", "a", "|">>,
    <<"|", "-", "|">>,
    <<"|", "a">>,
    <<"a", "|", "b">>,
    <<"*", "e", "*">>,
    <<"*", "*", "b", "*", "*">>,
    <<"*", "*", "a", "*", "b", "*", "*">>,
    <<"a", SP, "*", "b">>,
    <<"-", SP, "a">>,
    <<SP, SP, "-", SP, "b">>,
    <<">", SP, "a">>,
    <<SP, SP, SP, SP, "c">> }

BlockPool ==
  { <<>>,
    <<"a">>,
    <<"-", SP, "a">>,
    <<SP, SP, "-", SP, "b">>,
    <<">", SP, "a">>,
    <<">", SP, ">", SP, "a">>,
    <<">">> }

\* the inputs the specification names (section 8)
ExQuotes == <<">", SP, "a", NL, NL, ">", SP, "b", NL>>
ExNested == <<"-", SP, "a", NL, SP, SP, "-", SP, "b", NL>>
ExSiblings == <<"-", SP, "a", NL, "-", SP, "b", NL>>
ExFailOpen == <<"a", SP, "*", "b">>
ExBold == <<"*", "*", "b", "o", "l", "d", "*", "*">>
ExEm == <<"*", "e", "m", "*">>
ExTriple == <<"*", "*", "*", "x", "*", "*">>
Examples == {ExQuotes, ExNested, ExSiblings, ExFailOpen, ExBold, ExEm, ExTriple}

\* inputs that nest two quote levels and two list frames before a blank line or
\* a dedent
ExDeep == <<">", SP, ">", SP, "a", NL, "-", SP, "a", NL, SP, SP, "-", SP, "b", NL, NL, "a">>
ExDedent == <<"-", SP, "a", NL, SP, SP, "-", SP, "b", NL, "-", SP, "c">>

\* an unclosed '*' followed by an indented code line that starts with '-'
ExSpanThenCode == <<"*", "b", NL, SP, SP, SP, SP, "-", "c">>

\* table rows whose cells are styled, or text followed by a styled span
ExStyledCell == <<"|", "*", "e", "*", "|", "a", "|">>
ExMixedCell == <<"|", "a", "*", "b", "*", "|">>

\* tables whose header, separator and body rows differ in their numbers of cells
ExTable == <<"|", "a", "|", NL, "|", "-", "|", NL, "|", "b", "|">>
ExTableWide == <<"|", "a", "|", NL, "|", SP, "-", SP, "|", "-", "-", "|", NL,
                 "|", "b", "|", "c", "|", NL, "|", "d", "|">>
ExTableNarrow == <<"|", "a", "|", "b", "|", NL, "|", "-", TAB, "|", NL, "|", "c", "|">>
Tables == {ExTable, ExTableWide, ExTableNarrow}

Inputs ==
  Texts(DocPool, MaxDocLines) \cup Texts(BlockPool, MaxBlockLines) \cup Examples
    \cup {ExDeep, ExDedent, ExSpanThenCode, ExStyledCell, ExMixedCell} \cup Tables

Init == \E t \in Inputs, b \in {"modules", "bundle"} : InitWith(t, b)

Next ==
  \/ TokenizeLine
  \/ TokenizeEnd
  \/ ParserParse
  \/ ParseDocument
  \/ Recover
  \/ ParseHeader
  \/ ParseTable
  \/ ParseTableRow
  \/ ParseTableSep
  \/ ParseBlockQuote
  \/ ParseList
  \/ ParseListItem
  \/ ParseParagraph
  \/ ParseStyle

Spec == Init /\ [][Next]_vars

InitLex == \E t \in Texts(LexPool, MaxLines) : InitWith(t, "modules")

NextLex == TokenizeLine \/ TokenizeEnd

SpecLex == InitLex /\ [][NextLex]_vars

\* ================================================================ claims
CountTok(kind) == Cardinality({k \in 1..Len(tokens) : tokens[k].tok = kind})

TokenVals(from, to) == Flatten([k \in 1..(to - from) |-> tokens[from + k].val])

AllWhite(s) == \A k \in 1..Len(s) : IsWhite(s[k])

\* the tokenizer has just processed a line of the input
LineDone == lastLine.kind \notin {"init", "end"}

Opener(kind) ==
  CASE kind = "END_BLOCK_QUOTE" -> "BLOCK_QUOTE"
    [] kind = "END_LIST" -> "LIST"
    [] kind = "END_LIST_ITEM" -> "LIST_ITEM"

\* the structural tokens of toks from k on, read as brackets, close the open
\* constructs (innermost last in the sequence open) in properly nested order
RECURSIVE Nested(_, _, _)
Nested(toks, k, open) ==
  IF k > Len(toks) THEN TRUE
  ELSE IF toks[k].tok \in {"BLOCK_QUOTE", "LIST", "LIST_ITEM"}
  THEN Nested(toks, k + 1, Append(open, toks[k].tok))
  ELSE IF toks[k].tok \in {"END_BLOCK_QUOTE", "END_LIST", "END_LIST_ITEM"}
  THEN /\ open # <<>>
       /\ Last(open) = Opener(toks[k].tok)
       /\ Nested(toks, k + 1, Front(open))
  ELSE Nested(toks, k + 1, open)

\* C1: for every input, no exception escapes parse(): tokenize-then-parse never
\* ends with an error thrown out of parseDocument.
C1_NoErrorEscapesParse == phase # "threw"

\* C2: when tokenize() returns, the stream holds as many BLOCK_QUOTE as
\* END_BLOCK_QUOTE tokens, as many LIST as END_LIST tokens and as many LIST_ITEM
\* as END_LIST_ITEM tokens, the block-quote depth is 0 and the list stack is empty.
C2_SentinelsBalanced ==
  phase = "lexed" =>
    /\ CountTok("BLOCK_QUOTE") = CountTok("END_BLOCK_QUOTE")
    /\ CountTok("LIST") = CountTok("END_LIST")
    /\ CountTok("LIST_ITEM") = CountTok("END_LIST_ITEM")
    /\ blockQuote = 0
    /\ lists = <<>>

\* an input without a trailing newline that opened two lists and a block quote,
\* all still open at its last line, has been tokenized to the end
C2_Witness ==
  /\ phase = "lexed"
  /\ text # <<>>
  /\ Last(text) # NL
  /\ CountTok("LIST") >= 2
  /\ lastLine.blockQuote >= 1
  /\ Len(lastLine.lists) >= 2
  /\ CountTok("BLOCK_QUOTE") >= 1

\* C3: in the stream tokenize() returns, every closing structural token closes
\* the most recently opened, still open construct and is of that construct's kind.
C3_ProperlyNested == phase = "lexed" => Nested(tokens, 1, <<>>)

\* C4: when parseDocument catches a ParseError, its recovery consumes the tokens
\* from the failure point up to and including the next newline token, appends one
\* Error node holding the concatenated values of the tokens it discarded, and
\* parsing goes on.
C4_RecoverySkipsOneLine ==
  (ev.fn = "parseDocument" /\ ev.pc = "catch") =>
    /\ ev.kind = "recover"
    /\ phase = "parse"
    /\ stack # <<>>
    /\ Last(stack[1].acc) = ErrorNode(TokenVals(ev.at, index))
    /\ index > ev.at
    /\ peek(index - 1).val = <<NL>>
    /\ \A k \in ev.at..(index - 2) : peek(k).val # <<NL>>

\* C5: a blank (empty or whitespace-only) line emits END_BLOCK_QUOTE once per
\* open quote level, innermost first, then END_LIST_ITEM and END_LIST for every
\* open list frame, innermost first, then one BLANK_LINE and nothing else, and
\* leaves depth 0, an empty list stack and baseline 0; and "> a\n\n> b\n" parses
\* to a Document whose first two blocks are two separate BlockQuote nodes.
C5_BlankLineClosesAll ==
  /\ (LineDone /\ AllWhite(lastLine.line) /\ phase = "lex") =>
       LET d == lastLine.blockQuote
           ls == lastLine.lists
           n == Len(ls)
           t == lastLine.tokens
       IN /\ Len(t) = d + 2 * n + 1
          /\ \A k \in 1..d : t[k] = Token("END_BLOCK_QUOTE", <<>>, <<d + 1 - k>>)
          /\ \A k \in 1..n :
               /\ t[d + 2 * k - 1] = Token("END_LIST_ITEM", <<>>, <<ls[n + 1 - k].anchor>>)
               /\ t[d + 2 * k] = Token("END_LIST", <<>>, <<ls[n + 1 - k].anchor>>)
          /\ t[d + 2 * n + 1] = Token("BLANK_LINE", <<>>, <<>>)
          /\ blockQuote = 0
          /\ lists = <<>>
          /\ indentation = 0
  /\ text = ExQuotes =>
       /\ phase # "threw"
       /\ phase = "parse" => steps < MaxSteps
       /\ phase = "done" =>
            /\ Len(ret.kids) >= 2
            /\ ret.kids[1].type = "BlockQuote"
            /\ ret.kids[2].type = "BlockQuote"
            /\ html(ret.kids[1]) = Wrapped(<<"b", "l", "o", "c", "k", "q", "u", "o", "t", "e">>,
                                           Wrapped(<<"p">>, <<"a", NL>>))
            /\ html(ret.kids[2]) = Wrapped(<<"b", "l", "o", "c", "k", "q", "u", "o", "t", "e">>,
                                           Wrapped(<<"p">>, <<"b", NL>>))

\* a blank line has just closed two quote levels and two list frames
C5_Witness ==
  /\ LineDone /\ phase = "lex"
  /\ AllWhite(lastLine.line)
  /\ lastLine.blockQuote = 2
  /\ Len(lastLine.lists) = 2

Kinds(toks) == [k \in 1..Len(toks) |-> toks[k].tok]

IsListTok(t) == t.tok \in {"LIST", "END_LIST", "LIST_ITEM", "END_LIST_ITEM"}
IsEndQuote(t) == t.tok = "END_BLOCK_QUOTE"

\* the tokenizer has just processed a non-blank line
BlockLineDone == LineDone /\ phase = "lex" /\ ~AllWhite(lastLine.line)

\* after the indentation the tokenizer counted, the line holds a list marker
\* followed by a space
MarkerAndSpace ==
  /\ At(lastLine.line, lastLine.ind) \in {"-", "+", "*"}
  /\ At(lastLine.line, lastLine.ind + 1) = SP

\* the parse of the input t ends, without an error, within the step bound
Parses(t) ==
  text = t => (phase # "threw" /\ (phase = "parse" => steps < MaxSteps))

\* C6 as stated: on a list-item line, if the indentation is below the innermost
\* open frame's threshold the line emits END_LIST_ITEM then LIST_ITEM, no LIST
\* or END_LIST, and leaves the stack unchanged; otherwise it emits LIST then
\* LIST_ITEM and pushes {anchor: indentation, indent: threshold}.
C6_TieBreak_AsStated ==
  (BlockLineDone /\ MarkerAndSpace) =>
    LET pre == lastLine.lists
        ind == lastLine.ind
        struct == SelectSeq(lastLine.tokens, IsListTok)
    IN IF pre # <<>> /\ ind < Last(pre).indent
       THEN Kinds(struct) = <<"END_LIST_ITEM", "LIST_ITEM">> /\ lists = pre
       ELSE /\ Kinds(struct) = <<"LIST", "LIST_ITEM">>
            /\ lists = Append(pre, Frame(ind, ind + Len(struct[2].val)))

\* C6, amended: on a line tokenized as a list item (indentation below baseline
\* + 4, marker followed by a space), once dedent closing has popped the frames
\* whose anchor exceeds the indentation (END_LIST_ITEM, END_LIST each): if the
\* indentation is below the innermost remaining frame's threshold the line emits
\* END_LIST_ITEM then LIST_ITEM, no LIST and no further END_LIST, and leaves the
\* remaining stack unchanged; otherwise it emits LIST then LIST_ITEM and pushes
\* {anchor: indentation, indent: threshold}.  "- a\n  - b\n" yields a List with
\* one ListItem holding a nested List with one item; "- a\n- b\n" yields one
\* List with two sibling ListItems.
C6_TieBreak ==
  /\ (BlockLineDone /\ MarkerAndSpace /\ lastLine.ind < lastLine.indentation + CodeIndent) =>
       LET pre == lastLine.lists
           ind == lastLine.ind
           all == SelectSeq(lastLine.tokens, IsListTok)
           popped == Len(lastLine.dedent) \div 2
           rem == SubSeq(pre, 1, Len(pre) - popped)
           struct == SubSeq(all, 2 * popped + 1, Len(all))
       IN /\ \A k \in 1..popped :
               /\ pre[Len(pre) + 1 - k].anchor > ind
               /\ all[2 * k - 1].tok = "END_LIST_ITEM"
               /\ all[2 * k].tok = "END_LIST"
          /\ rem # <<>> => Last(rem).anchor <= ind
          /\ IF rem # <<>> /\ ind < Last(rem).indent
             THEN Kinds(struct) = <<"END_LIST_ITEM", "LIST_ITEM">> /\ lists = rem
             ELSE /\ Kinds(struct) = <<"LIST", "LIST_ITEM">>
                  /\ lists = Append(rem, Frame(ind, ind + Len(struct[2].val)))
                  /\ struct[1].data = <<ind, ind + Len(struct[2].val)>>
  /\ Parses(ExNested) /\ Parses(ExSiblings)
  /\ (text = ExNested /\ phase = "done") =>
       /\ ret.kids[1].type = "List"
       /\ Kinds([k \in 1..Len(ret.kids[1].kids) |-> [tok |-> ret.kids[1].kids[k].type]])
            = <<"ListItem">>
       /\ LET item == ret.kids[1].kids[1]
          IN /\ Len(item.kids) = 2
             /\ item.kids[1] = ParagraphNode(<<TextNode(<<"a", NL>>)>>)
             /\ item.kids[2] = ListNode(<<ListItemNode(<<ParagraphNode(<<TextNode(<<"b", NL>>)>>)>>)>>)
  /\ (text = ExSiblings /\ phase = "done") =>
       ret.kids[1] = ListNode(<<ListItemNode(<<ParagraphNode(<<TextNode(<<"a", NL>>)>>)>>),
                                ListItemNode(<<ParagraphNode(<<TextNode(<<"b", NL>>)>>)>>)>>)

\* a list-item line has dedented out of a nested list and become a sibling item
\* of the outer list
C6_Witness ==
  /\ BlockLineDone /\ MarkerAndSpace
  /\ Len(lastLine.lists) = 2
  /\ Len(lastLine.dedent) = 2
  /\ lists = <<lastLine.lists[1]>>
  /\ lastLine.ind < lastLine.lists[1].indent

\* the '>' markers the line starts with after its indentation, each with its
\* one optional blank
LineMarkers == QuoteMarkers(lastLine.line, lastLine.ind, 0, <<>>)

\* nothing but whitespace follows the line's markers
BareMarkers == AllWhite(Rest(lastLine.line, LineMarkers.pos))

\* the line starts, after its indentation, with fewer markers than quotes are open
FewerMarkersThanDepth ==
  /\ BlockLineDone
  /\ At(lastLine.line, lastLine.ind) = ">"
  /\ lastLine.blockQuote > LineMarkers.count

LazyOrClose ==
  LET d == lastLine.blockQuote
      k == LineMarkers.count
      ends == SelectSeq(lastLine.tokens, IsEndQuote)
  IN IF BareMarkers
     THEN /\ ends = [j \in 1..(d - k) |-> Token("END_BLOCK_QUOTE", <<>>, <<d + 1 - j>>)]
          /\ blockQuote = k
     ELSE /\ ends = <<>>
          /\ blockQuote = d

\* C7 as stated: on a non-blank line that starts, after its indentation, with k
\* '>' markers while the depth is d > k: if the line holds anything besides the
\* markers no END_BLOCK_QUOTE is emitted and the depth stays d; if it is a bare
\* repetition of markers END_BLOCK_QUOTE is emitted for levels d down to k + 1
\* and the depth becomes k.
C7_LazyContinuation_AsStated == FewerMarkersThanDepth => LazyOrClose

\* C7, amended: the same, on a line that is not an indented code-block line
\* (its indentation is below baseline + 4).
C7_LazyContinuation ==
  (FewerMarkersThanDepth /\ lastLine.ind < lastLine.indentation + CodeIndent) => LazyOrClose

\* a line with one marker and more text has continued a quote of depth 2
C7_Witness ==
  /\ FewerMarkersThanDepth
  /\ lastLine.ind < lastLine.indentation + CodeIndent
  /\ ~BareMarkers
  /\ lastLine.blockQuote = 2
  /\ LineMarkers.count = 1
  /\ blockQuote = 2

\* parseStyle has just returned a Style node
StyleReturned == ev.kind = "return" /\ ev.fn = "parseStyle" /\ ret.type = "Style"

\* the delimiter parseStyle was entered at: the token at its entry cursor, with
\* the next token when the two together name a marker
OpenerAt(i) ==
  IF InStyleTypes(peek(i).val \o peek(i + 1).val)
  THEN peek(i).val \o peek(i + 1).val ELSE peek(i).val

AllText(kids) == \A k \in 1..Len(kids) : kids[k].type = "Text"
TextOf(kids) == Flatten([k \in 1..Len(kids) |-> kids[k].text])

StrongTag == <<"s", "t", "r", "o", "n", "g">>
EmTag == <<"e", "m">>

C9_MarkerPrecedence ==
  /\ (ev.kind = "return" /\ ev.fn = "parseStyle"
      /\ InStyleTypes(peek(ev.from).val \o peek(ev.from + 1).val)) =>
       LET c == peek(ev.from).val
           two == c \o peek(ev.from + 1).val
       IN /\ ret.type = "Style"
          /\ ret.tag \in {StyleType(two), Span}
          /\ ret.tag = Span => ret.kids[1] = TextNode(two)
          /\ ret.tag # Span =>
               /\ index >= ev.from + 4
               /\ peek(index - 2).val = c
               /\ peek(index - 1).val = c
               /\ AllText(ret.kids) =>
                    /\ TextOf(ret.kids) = TokenVals(ev.from + 2, index - 2)
                    /\ \A j \in (ev.from + 2)..(index - 4) :
                         ~(peek(j).val = c /\ peek(j + 1).val = c)
  /\ Parses(ExBold) /\ Parses(ExEm)
  /\ (text = ExBold /\ phase = "done") =>
       /\ ret.kids[1] = ParagraphNode(<<StyleNode(StrongTag, <<TextNode(<<"b", "o", "l", "d">>)>>)>>)
       /\ html(ret.kids[1].kids[1]) = Wrapped(StrongTag, <<"b", "o", "l", "d">>)
  /\ (text = ExEm /\ phase = "done") =>
       /\ ret.kids[1] = ParagraphNode(<<StyleNode(EmTag, <<TextNode(<<"e", "m">>)>>)>>)
       /\ html(ret.kids[1].kids[1]) = Wrapped(EmTag, <<"e", "m">>)

\* a two-character span has closed at a pair after keeping a lone closing
\* character as text
C9_Witness ==
  /\ StyleReturned
  /\ InStyleTypes(peek(ev.from).val \o peek(ev.from + 1).val)
  /\ ret.tag = StrongTag
  /\ \E k \in 1..Len(ret.kids) : ret.kids[k] = TextNode(<<"*">>)

\* C10: a Header node's level is the number of '#' tokens at its start, and
\* parseHeader consumes no token beyond the first newline after the '#' run:
\* a newline token is the last token it has consumed.
C10_HeaderSameLineOnly ==
  /\ (ev.kind = "return" /\ ev.fn = "parseHeader") =>
       /\ ret.type = "Header"
       /\ ret.level = Len(expectAll(Lit(<<"#">>), ev.from).val)
       /\ ret.level >= 1
  /\ \A k \in 1..Len(stack) :
       stack[k].fn = "parseHeader" =>
         \A j \in stack[k].from..(index - 2) : peek(j).val # <<NL>>
  /\ (ev.kind = "return" /\ ev.fn = "parseHeader") =>
       \A j \in ev.from..(index - 2) : peek(j).val # <<NL>>

\* the characters the tokenizer or the parser gives a meaning to
MarkupChars == {"*", "_", "~", "^", BT, "+", "-", "|", "#", ">", NL, TAB}

\* the input without its trailing newline, if it has one
InputLine == IF text # <<>> /\ Last(text) = NL THEN Front(text) ELSE text

\* the input is a single line of plain text, with or without its trailing newline
TrivialInput ==
  /\ InputLine # <<>>
  /\ InputLine[1] # SP
  /\ \A k \in 1..Len(InputLine) : InputLine[k] \notin MarkupChars

\* C11: for an input that is a single line of plain text, with or without its
\* trailing newline, the parse ends without an error in a Document with exactly
\* one block, a Paragraph with exactly one Text node holding the line (as the
\* tokenizer terminates it), and the Document renders to <p> text </p>.
C11_TrivialRoundTrip ==
  TrivialInput =>
    /\ phase # "threw"
    /\ phase = "parse" => steps < MaxSteps
    /\ phase = "done" =>
         /\ ret = DocumentNode(<<ParagraphNode(<<TextNode(InputLine \o <<NL>>)>>)>>)
         /\ html(ret) = Wrapped(<<"p">>, InputLine \o <<NL>>)

\* every token from cursor i up to the current cursor is a TEXT token
OnlyTextSince(i) == \A j \in i..(index - 1) : peek(j).tok = "TEXT"

\* C12: every token consumed by a call of parseParagraph, through the calls it
\* makes included, is a TEXT token; so when it returns the cursor is at or
\* before the first BLANK_LINE, CODE_BLOCK or sentinel token after its start.
C12_ParagraphOnlyText ==
  /\ \A k \in 1..Len(stack) :
       (phase = "parse" /\ stack[k].fn = "parseParagraph") => OnlyTextSince(stack[k].from)
  /\ (ev.fn = "parseParagraph" /\ ev.kind = "return") => OnlyTextSince(ev.from)

\* the matchers the parser hands to expect and expectAll
Matchers ==
  {Lit(<<"|">>), Lit(<<NL>>), Lit(<<"#">>), Lit(<<"-">>), Lit(<<"*">>),
   styleChars, Class({SP, TAB}), NotClass({NL})}

\* there is a token at cursor i and its value satisfies the matcher
Satisfies(m, i) == hasNext(i) /\ Matches(m, peek(i))

\* C13: Buffer.expect(matcher) raises when the token at the cursor does not
\* satisfy the matcher or the stream is exhausted, what it raises is a
\* ParseError, the class parseDocument catches, and otherwise it returns the
\* token it consumed.
C13_ExpectRaisesParseError ==
  /\ phase = "parse" =>
       \A m \in Matchers :
         LET e == expect(m, index)
         IN /\ e.ok <=> Satisfies(m, index)
            /\ e.ok => (e.tok = tokens[index + 1] /\ e.index = index + 1)
            /\ ~e.ok => ExpectFailure = "ParseError"
  /\ (ev.kind = "throw" /\ err # "TypeError") =>
       /\ err = "ParseError"
       /\ phase = "parse"
       /\ Top.pc = "catch"

\* C14: Buffer.expectAll(matcher) never fails, for any matcher and any cursor
\* position, the end of the stream included: it consumes the longest run of
\* tokens whose values match, returns the concatenation of their values and
\* leaves the cursor on the first token that does not match.
C14_ExpectAllNeverFails ==
  /\ phase = "parse" =>
       \A m \in Matchers :
         LET r == expectAll(m, index)
         IN /\ r.err = "none"
            /\ r.index >= index
            /\ \A j \in index..(r.index - 1) : Satisfies(m, j)
            /\ ~Satisfies(m, r.index)
            /\ r.val = TokenVals(index, r.index)
  /\ ~(ev.kind = "throw" /\ ev.fn = "parseDocument" /\ ev.pc = "catch")

Tok ==
  {"TEXT", "BLOCK_QUOTE", "END_BLOCK_QUOTE", "LIST_ITEM", "END_LIST_ITEM", "LIST",
   "END_LIST", "CODE_BLOCK", "BLANK_LINE"}

\* the stream holds tokens of the Tok kinds only, and no value read past the end
\* of a line
StreamWellFormed ==
  \A k \in 1..Len(tokens) :
    /\ tokens[k].tok \in Tok
    /\ \A j \in 1..Len(tokens[k].val) : tokens[k].val[j] # "undefined"

\* the tokens of the line just processed run to the end of the line, and the
\* loops of resetContext have run to their exit conditions
LoopsRanOut ==
  /\ BlockLineDone =>
       /\ lastLine.tokens # <<>>
       /\ Last(lastLine.tokens).tok \in {"TEXT", "CODE_BLOCK"}
       /\ Last(Last(lastLine.tokens).val) = NL
  /\ (LineDone /\ AllWhite(lastLine.line)) => (blockQuote = 0 /\ lists = <<>>)
  /\ phase = "lexed" => (blockQuote = 0 /\ lists = <<>> /\ lineNo = Len(lines))

\* C15: for every input Lexer.tokenize() terminates and returns a token stream
\* without raising: until it returns, tokenizeFile has a line to take or is at
\* its return, each step takes the next line or returns (so there are at most
\* as many steps as lines, plus one), every line's loops run to the end of the line, and the
\* stream holds well-formed tokens only.
C15_TokenizerTotal ==
  /\ [](StreamWellFormed /\ LoopsRanOut)
  /\ [](phase = "lex" => (lineNo < Len(lines) \/ lineNo = Len(lines)))
  /\ [][(lineNo' = lineNo + 1 /\ lineNo' <= Len(lines) /\ phase' = "lex")
        \/ (lineNo = Len(lines) /\ phase' = "lexed")]_vars

\* tokenize() has returned for a three-line input after its final resetContext
\* closed an open quote and an open list
C15_Witness ==
  /\ phase = "lexed"
  /\ Len(lines) >= 3
  /\ lastLine.kind = "end"
  /\ lastLine.blockQuote > 0
  /\ lastLine.lists # <<>>
  /\ blockQuote = 0
  /\ lists = <<>>

RECURSIVE LeadingSpaces(_)
LeadingSpaces(s) == IF s # <<>> /\ s[1] = SP THEN 1 + LeadingSpaces(Tail(s)) ELSE 0

\* the tokens of the line just processed, without those of dedent closing
AfterDedent == SubSeq(lastLine.tokens, Len(lastLine.dedent) + 1, Len(lastLine.tokens))

\* C16: leading spaces are counted up to at most baseline + 4; on a non-blank
\* line whose count reaches baseline + 4 exactly one CODE_BLOCK token with the
\* whole remainder of the line is emitted and no TEXT, LIST, LIST_ITEM or
\* BLOCK_QUOTE token, whatever the remainder begins with; a line with fewer
\* leading spaces gets no CODE_BLOCK from this rule (only a list item followed
\* by five spaces carries one).
C16_CodeBlockRule ==
  BlockLineDone =>
    LET n == LeadingSpaces(lastLine.line)
        base == lastLine.indentation
    IN /\ lastLine.ind = IF n < base + 4 THEN n ELSE base + 4
       /\ IF n >= base + 4
          THEN /\ AfterDedent = <<Token("CODE_BLOCK", Rest(lastLine.line, base + 4), <<base + 4>>)>>
               /\ \A k \in 1..Len(lastLine.tokens) :
                    lastLine.tokens[k].tok \in {"END_LIST_ITEM", "END_LIST", "CODE_BLOCK"}
               /\ indentation = base
               /\ blockQuote = lastLine.blockQuote
          ELSE \A k \in 1..Len(lastLine.tokens) :
                 lastLine.tokens[k].tok = "CODE_BLOCK" =>
                   /\ MarkerAndSpace
                   /\ k > 1
                   /\ lastLine.tokens[k - 1].tok = "LIST_ITEM"
                   /\ \A j \in 1..5 : At(lastLine.line, n + j) = SP

\* below a list item (baseline 2) a line with six leading spaces has become one
\* CODE_BLOCK token
C16_Witness ==
  /\ BlockLineDone
  /\ lastLine.indentation = 2
  /\ LeadingSpaces(lastLine.line) = 6
  /\ lastLine.tokens = <<Token("CODE_BLOCK", <<"c", NL>>, <<6>>)>>

\* the line just processed is tokenized as a list item: below the code-block
\* indentation, a marker followed by a space
ListItemLine ==
  BlockLineDone /\ MarkerAndSpace /\ lastLine.ind < lastLine.indentation + 4

\* the spaces after the marker of the line just processed, counted up to 5
SpacesAfterMarker ==
  LET n == LeadingSpaces(Rest(lastLine.line, lastLine.ind + 1))
  IN IF n < 5 THEN n ELSE 5

\* C17: on a list-item line whose marker is at column indentation and is
\* followed by p counted spaces (1 <= p <= 5), the LIST_ITEM token's value is
\* the marker and ((p-1) mod 4)+1 spaces (1..4, and 1 when p = 5), the item's
\* threshold is indentation + 1 + that number, the baseline becomes the
\* threshold, and a CODE_BLOCK token with the rest of the line follows the
\* LIST_ITEM token exactly when p = 5.
C17_ListItemArithmetic ==
  ListItemLine =>
    LET ind == lastLine.ind
        p == SpacesAfterMarker
        w == ((p - 1) % 4) + 1
        toks == AfterDedent
        items == SelectSeq(toks, LAMBDA t : t.tok = "LIST_ITEM")
    IN /\ p \in 1..5
       /\ w \in 1..4
       /\ p = 5 => w = 1
       /\ Len(items) = 1
       /\ Len(toks) >= 2
       /\ toks[2].tok = "LIST_ITEM"
       /\ toks[2].val = <<At(lastLine.line, ind)>> \o [k \in 1..w |-> SP]
       /\ toks[2].data = <<ind, ind + 1 + w>>
       /\ toks[1].tok = "LIST" =>
            (toks[1].data = <<ind, ind + 1 + w>> /\ Last(lists) = Frame(ind, ind + 1 + w))
       /\ indentation = ind + 1 + w
       /\ IF p = 5
          THEN /\ Len(toks) = 3
               /\ toks[3] = Token("CODE_BLOCK", Rest(lastLine.line, ind + 6), <<ind + 1 + w + 4>>)
          ELSE \A k \in 1..Len(toks) : toks[k].tok # "CODE_BLOCK"

\* a list item followed by five spaces has got a one-space LIST_ITEM token and a
\* CODE_BLOCK token
C17_Witness ==
  /\ ListItemLine
  /\ SpacesAfterMarker = 5
  /\ Len(AfterDedent) = 3
  /\ AfterDedent[2].val = <<"+", SP>>
  /\ AfterDedent[3].tok = "CODE_BLOCK"
  /\ indentation = 2

\* the END_LIST tokens of the line just processed
EndLists == SelectSeq(lastLine.tokens, LAMBDA t : t.tok = "END_LIST")

\* C18: on every non-blank line, before the line's construct is chosen, list
\* frames are popped innermost first as long as the innermost anchor exceeds
\* the line's indentation, END_LIST_ITEM then END_LIST being emitted for each;
\* afterwards every frame on the stack has anchor <= indentation, and no frame
\* with anchor <= indentation was popped.
C18_DedentClosing ==
  BlockLineDone =>
    LET pre == lastLine.lists
        ind == lastLine.ind
        t == lastLine.tokens
        popped == Len(EndLists)
        rem == SubSeq(pre, 1, Len(pre) - popped)
    IN /\ popped <= Len(pre)
       /\ Len(t) >= 2 * popped
       /\ \A k \in 1..popped :
            /\ t[2 * k - 1] = Token("END_LIST_ITEM", <<>>, <<pre[Len(pre) + 1 - k].anchor>>)
            /\ t[2 * k] = Token("END_LIST", <<>>, <<pre[Len(pre) + 1 - k].anchor>>)
            /\ pre[Len(pre) + 1 - k].anchor > ind
       /\ \A k \in 1..Len(rem) : rem[k].anchor <= ind
       /\ \A k \in 1..Len(lists) : lists[k].anchor <= ind
       /\ lists = rem \/ (Len(lists) = Len(rem) + 1 /\ Front(lists) = rem)

\* a non-blank line has popped two list frames and kept none
C18_Witness ==
  /\ BlockLineDone
  /\ Len(lastLine.lists) = 2
  /\ Len(EndLists) = 2
  /\ lists = <<>>

\* the cursor of the first newline token at or after i, or the end of the stream
RECURSIVE LineEnd(_)
LineEnd(i) == IF hasNext(i) /\ peek(i).val # <<NL>> THEN LineEnd(i + 1) ELSE i

\* the '|' tokens from cursor i to the end of the line
Bars(i) == Cardinality({j \in i..(LineEnd(i) - 1) : peek(j).val = <<"|">>})

\* the tokens from cursor i to the end of the line have the form |c1|c2|...|cn|
RowAt(i) ==
  /\ peek(i).val = <<"|">>
  /\ LineEnd(i) >= i + 2
  /\ peek(LineEnd(i) - 1).val = <<"|">>
  /\ \A j \in i..(LineEnd(i) - 1) : peek(j).tok = "TEXT"

\* C19: for a table row of the form |c1|...|cn|, whatever inline content the
\* cells hold, parseTableRow raises nothing and returns exactly n cells, having
\* consumed the row up to and including its newline.
C19_TableRowCells ==
  (ev.fn = "parseTableRow" /\ RowAt(ev.from)) =>
    /\ ev.kind # "throw"
    /\ ev.kind = "return" =>
         /\ ret.type = "Row"
         /\ Len(ret.kids) = Bars(ev.from) - 1
         /\ index \in {LineEnd(ev.from), LineEnd(ev.from) + 1}

\* the tokens from cursor i to the end of the line are a separator row: cells
\* of optional whitespace, a run of '-', optional whitespace, between '|'
SepAt(i) ==
  LET e == LineEnd(i)
  IN /\ RowAt(i)
     /\ \A j \in i..(e - 1) : peek(j).val \in {<<"|">>, <<"-">>, <<SP>>, <<TAB>>}
     /\ \A j \in i..(e - 2) : peek(j).val = <<"|">> =>
          \E k \in (j + 1)..(e - 1) :
            /\ peek(k).val = <<"-">>
            /\ \A l \in (j + 1)..k : peek(l).val # <<"|">>
     /\ \A j \in i..(e - 1), l \in i..(e - 1) :
          (j < l /\ peek(j).val = <<"-">> /\ peek(l).val = <<"-">>
             /\ \A k \in j..l : peek(k).val # <<"|">>)
          => \A k \in j..l : peek(k).val = <<"-">>

\* the newline tokens from cursor i up to the current cursor
NewlinesSince(i) == Cardinality({j \in i..(index - 1) : peek(j).val = <<NL>>})

\* every line that starts between cursor i and the current cursor is a row closed
\* by '|', so that each row the parser reads is one line
ClosedRowsSince(i) ==
  \A j \in i..(index - 1) : (j = i \/ peek(j - 1).val = <<NL>>) => RowAt(j)

\* C20: a separator row of '|'-delimited cells of optional whitespace, a run of
\* '-', optional whitespace is accepted whatever its number of cells; the Table
\* node of a table whose lines are rows closed by '|' holds the header and one
\* row per body line and nothing of the separator; tables whose header, separator and body rows differ in their
\* numbers of cells parse to a Table node without an error or an Error node.
C20_SeparatorShapeOnly ==
  /\ (ev.fn = "parseTableSep" /\ SepAt(ev.from)) =>
       /\ ev.kind # "throw"
       /\ ev.kind = "return" => index \in {LineEnd(ev.from), LineEnd(ev.from) + 1}
  /\ (ev.fn = "parseTable" /\ ev.kind = "return") =>
       /\ ret.type = "Table"
       /\ ClosedRowsSince(ev.from) => Len(ret.kids) = NewlinesSince(ev.from) - 1
       /\ \A k \in 1..Len(ret.kids) :
            /\ ret.kids[k].type = "Row"
            /\ \A c \in 1..Len(ret.kids[k].kids) : ret.kids[k].kids[c].type # "Error"
  /\ \A t \in Tables : Parses(t)
  /\ (text \in Tables /\ phase = "done") =>
       /\ Len(ret.kids) = 1
       /\ ret.kids[1].type = "Table"
  /\ (text = ExTableWide /\ phase = "done") =>
       ret.kids[1] = TableNode(RowNode(<<TextNode(<<"a">>)>>),
                               <<RowNode(<<TextNode(<<"b">>), TextNode(<<"c">>)>>),
                                 RowNode(<<TextNode(<<"d">>)>>)>>)
  /\ (text = ExTableNarrow /\ phase = "done") =>
       ret.kids[1] = TableNode(RowNode(<<TextNode(<<"a">>), TextNode(<<"b">>)>>),
                               <<RowNode(<<TextNode(<<"c">>)>>)>>)

\* a table with a one-cell header, a two-cell separator and body rows of two
\* cells and of one cell has been parsed to a Table node
C20_Witness ==
  /\ text = ExTableWide
  /\ ev.fn = "parseTable"
  /\ ev.kind = "return"
  /\ ret.type = "Table"
  /\ Len(ret.kids) = 3

\* C21: for the input "***x**" parsing raises no error and drops no character;
\* the result is a strong span, and the extra leading '*' is literal text that
\* comes before the strong span.
C21_TripleStar ==
  /\ Parses(ExTriple)
  /\ (text = ExTriple /\ phase = "done") =>
       /\ Len(ret.kids) >= 1
       /\ ret.kids[1] = ParagraphNode(<<TextNode(<<"*">>),
                                        StyleNode(StrongTag, <<TextNode(<<"x">>)>>)>>)
       /\ html(ret.kids[1]) = Wrapped(<<"p">>, <<"*", "<", "b", "r", ">">> \o Wrapped(StrongTag, <<"x">>))

\* C22: the token cursor never moves back; once the stream is exhausted it stays
\* exhausted and peek() is the end-of-stream value; expect and expectAll leave
\* the cursor at or after where they found it, and expectOrEOF leaves it where
\* it is on an exhausted stream.
C22_CursorForwardOnly ==
  /\ [](phase = "parse" =>
          /\ index >= 0
          /\ ~hasNext(index) => peek(index) = Undefined
          /\ \A m \in Matchers :
               /\ expect(m, index).index = index + 1
               /\ expectAll(m, index).index >= index
          /\ (~hasNext(index) /\ stack # <<>>) =>
               LET M == ExpectNewlineAndReturn(Machine, ret, index)
               IN M.index = index /\ M.kind = "return")
  /\ [][phase = "parse" =>
          /\ index' >= index
          /\ tokens' = tokens
          /\ ~hasNext(index) => (index' >= Len(tokens') /\ peek(index)' = Undefined)]_vars

\* parseHeader has returned through expectOrEOF on an exhausted stream, the
\* cursor staying where it was
C22_Witness ==
  /\ phase = "parse"
  /\ ev.fn = "parseHeader"
  /\ ev.kind = "return"
  /\ ~hasNext(index)
  /\ ev.at = index
  /\ index > 0


\* the parser functions that hold a loop
LoopFns == {"parseDocument", "parseBlockQuote", "parseList", "parseListItem", "parseParagraph",
            "parseHeader", "parseTableRow", "parseTableSep", "parseStyle"}

\* a call made from the body of a loop has come back to the loop's function
BackInLoop == phase = "parse" /\ stack # <<>> /\ Top.fn \in LoopFns /\ Top.pc = "ret"

\* C23: parse() terminates: the parse never uses up the step bound, and each
\* turn of a loop of the parser consumes at least one token: when the call made in
\* the loop's body comes back, the cursor is past where it was when the call was made.
C23_ParseTerminates ==
  /\ phase = "parse" => steps < MaxSteps
  /\ BackInLoop => index > Top.mark


\* the sequence a is an initial part of the sequence b
IsPrefix(a, b) == Len(a) <= Len(b) /\ SubSeq(b, 1, Len(a)) = a

\* C24: in every tokenizer state each list frame has indent > anchor and an
\* anchor at or above the indent of the frame below it, so anchors strictly
\* increase from the outermost frame to the innermost; and a step of the
\* tokenizer only pops frames and pushes at most one, leaving the frames that
\* stay as they were.
C24_ListFramesOrdered ==
  /\ [](/\ \A k \in 1..Len(lists) : lists[k].indent > lists[k].anchor
        /\ \A k \in 2..Len(lists) :
             /\ lists[k].anchor >= lists[k - 1].indent
             /\ lists[k].anchor > lists[k - 1].anchor)
  /\ [][\/ IsPrefix(lists', lists)
        \/ lists' # <<>> /\ IsPrefix(Front(lists'), lists)]_vars

\* a list item two columns right of the threshold of the list it is nested in
\* has pushed a second frame
C24_Witness ==
  /\ lastLine.kind = "list"
  /\ lastLine.lists = <<Frame(0, 2)>>
  /\ lists = <<Frame(0, 2), Frame(4, 6)>>


IsQuoteTok(t) == t.tok \in {"BLOCK_QUOTE", "END_BLOCK_QUOTE"}

\* C25: a non-blank line whose first character after the indentation the
\* tokenizer consumed is not '>' emits no BLOCK_QUOTE and no END_BLOCK_QUOTE token
\* and leaves the block-quote depth as it was; and the depth has decreased only
\* at a whitespace-only line, at the end of the input, or at a line that holds
\* nothing but '>' markers.
C25_QuoteDepthFrame ==
  /\ (BlockLineDone /\ At(lastLine.line, lastLine.ind) # ">") =>
       /\ SelectSeq(lastLine.tokens, IsQuoteTok) = <<>>
       /\ blockQuote = lastLine.blockQuote
  /\ blockQuote < lastLine.blockQuote =>
       \/ lastLine.kind = "end"
       \/ lastLine.kind = "blank" /\ AllWhite(lastLine.line)
       \/ lastLine.kind = "quote" /\ BareMarkers

\* a list-item line inside a quote of depth 1 has kept the depth and emitted
\* list tokens only
C25_Witness ==
  /\ BlockLineDone
  /\ lastLine.kind = "list"
  /\ lastLine.blockQuote = 1
  /\ blockQuote = 1
  /\ Kinds(lastLine.tokens) = <<"LIST", "LIST_ITEM", "TEXT", "TEXT">>


\* the characters of s that are not spaces, tabs or newlines, in their order
NonWhite(s) == SelectSeq(s, LAMBDA c : ~IsWhite(c))

\* C26: the tokenizer loses no content: once tokenize() has returned, the
\* non-whitespace characters of the input are, each once and in their order,
\* the non-whitespace characters of the concatenated token values; and so it is
\* line by line while the tokenizer runs.
C26_NoContentLost ==
  /\ LineDone =>
       NonWhite(Flatten([k \in 1..Len(lastLine.tokens) |-> lastLine.tokens[k].val])) = NonWhite(lastLine.line)
  /\ phase = "lexed" => NonWhite(TokenVals(0, Len(tokens))) = NonWhite(text)

====
